---------------------------- MODULE Spec2Model ----------------------------
(***************************************************************************)
(* Model of the rotoclone-zone site: the content-directory parser          *)
(* (site.rs), the page/tag context builders (context.rs) and the           *)
(* self-updating site behind an RwLock driven by a Hotwatch callback       *)
(* (updating_site.rs), read by the request handlers of main.rs.            *)
(***************************************************************************)
EXTENDS Integers, Sequences, FiniteSets, TLC

VARIABLES
    tree,          \* content_root/blog: directory child name -> child
    out,           \* output_root/blog: "<name>.html" -> file state
    queue,         \* events delivered to the Hotwatch callback, oldest first
    wpc,           \* position of the watcher thread inside the callback
    idx,           \* index of the next directory child the running scan visits
    blog_entries,  \* local Vec<BlogEntry> of the running Site::from_dir
    built,         \* Site value held by the callback between Ok(site) and the assignment
    werr,          \* last value printed by "Error rebuilding site: {}" ("" = none)
    site,          \* UpdatingSite.site, the value behind the RwLock
    wlocked,       \* TRUE while the callback holds the write guard
    rpc,           \* reader -> position of the request handler
    rreq,          \* reader -> the request being served
    robs,          \* reader -> what the handler has read through its guard so far
    gen,           \* history: ordinal of the build that produced each Site value
    rhist,         \* history: reader -> facts recorded when its guard was acquired
    edits,         \* number of content edits made so far (bounded)
    arg,           \* argument of a pure-function call (function-level specifications)
    ret            \* result of that call, <<>> before the call

vars == <<tree, out, queue, wpc, idx, blog_entries, built, werr, site, wlocked,
          rpc, rreq, robs, gen, rhist, edits, arg, ret>>

liveVars == <<tree, out, queue, wpc, idx, blog_entries, built, werr, site, wlocked,
              rpc, rreq, robs, gen, rhist, edits>>

-----------------------------------------------------------------------------
(* Bounds of the model *)

MaxLines == 3        \* longest content file drawn for the parser
NumDirs == 3         \* children of content_root/blog
MaxTotal == 25       \* largest number of entries drawn for the pagers
MaxPage == 4         \* largest page number drawn for the pagers
MaxStride == 5       \* the pagers' sites carry tag "t" on every k-th entry, k <= MaxStride
NumReaders == 1      \* request handlers running at the same time
MaxEdits == 1        \* content edits and watcher errors in one behaviour
EditableDirs == 2    \* children of content_root/blog the environment edits
UsizeBits == 6       \* width of usize in the pagers' arithmetic (2^6 = 64 values)
MaxBurst == 2        \* edits and watcher errors in one behaviour of SpecWatch

-----------------------------------------------------------------------------
(* Option<T>: None is the empty sequence, Some(v) the one-element sequence *)

None == <<>>
Some(v) == <<v>>
IsSome(o) == Len(o) = 1
Unwrap(o) == o[1]
UnwrapOr(o, d) == IF IsSome(o) THEN o[1] ELSE d

Range(s) == {s[i] : i \in 1..Len(s)}

-----------------------------------------------------------------------------
(* site.rs: constants *)

BLOG_CONTENT_FILE_NAME == "content.md"
DEFAULT_BLOG_ENTRY_TEMPLATE_NAME == "blog_entry"
FRONT_MATTER_DELIMITER == "+++"

(* Lines a content file is made of in this model. *)
LineSlugX == "slug = 'x'"
LineSlugY == "slug = 'y'"
LineTitle == "title = 'T'"
LineTagsT == "tags = ['t']"
LineTagsTU == "tags = ['t', 'u']"
LineCreated1 == "created_at = 2021-01-01T00:00:00Z"
LineCreated2 == "created_at = 2022-01-01T00:00:00Z"
LineBadDate == "created_at = 'yesterday'"
LineUnknown == "draft = true"
LineText == "hello"
LineText2 == "world"

(* toml: one line of a TOML document as the deserializer of FrontMatter     *)
(* sees it. syntax: the line is a key/value pair (or blank); typed: the     *)
(* value has the type the FrontMatter field asks for; unknown keys are      *)
(* ignored by serde. Timestamps are numbered in chronological order.        *)
TomlLine(line) ==
    CASE line = LineSlugX    -> [syntax |-> TRUE, blank |-> FALSE, key |-> "slug", typed |-> TRUE, val |-> <<"x">>]
      [] line = LineSlugY    -> [syntax |-> TRUE, blank |-> FALSE, key |-> "slug", typed |-> TRUE, val |-> <<"y">>]
      [] line = LineTitle    -> [syntax |-> TRUE, blank |-> FALSE, key |-> "title", typed |-> TRUE, val |-> <<"T">>]
      [] line = LineTagsT    -> [syntax |-> TRUE, blank |-> FALSE, key |-> "tags", typed |-> TRUE, val |-> <<"t">>]
      [] line = LineTagsTU   -> [syntax |-> TRUE, blank |-> FALSE, key |-> "tags", typed |-> TRUE, val |-> <<"t", "u">>]
      [] line = LineCreated1 -> [syntax |-> TRUE, blank |-> FALSE, key |-> "created_at", typed |-> TRUE, val |-> <<"1">>]
      [] line = LineCreated2 -> [syntax |-> TRUE, blank |-> FALSE, key |-> "created_at", typed |-> TRUE, val |-> <<"2">>]
      [] line = LineBadDate  -> [syntax |-> TRUE, blank |-> FALSE, key |-> "created_at", typed |-> FALSE, val |-> <<>>]
      [] line = LineUnknown  -> [syntax |-> TRUE, blank |-> FALSE, key |-> "draft", typed |-> TRUE, val |-> <<>>]
      [] line = ""           -> [syntax |-> TRUE, blank |-> TRUE, key |-> "", typed |-> TRUE, val |-> <<>>]
      [] OTHER               -> [syntax |-> FALSE, blank |-> FALSE, key |-> "", typed |-> TRUE, val |-> <<>>]

(* chrono: the instant a timestamp text denotes *)
DateTimeOf(text) == CASE text = "1" -> 1 [] text = "2" -> 2 [] OTHER -> 0

FrontMatterKeys == {"slug", "title", "template", "tags", "created_at"}

(* site.rs FrontMatter: every field optional *)
EmptyFrontMatter ==
    [slug |-> None, title |-> None, template |-> None, tags |-> None, created_at |-> None]

(* toml::from_str::<FrontMatter>: fails on a syntax error, on a key given   *)
(* twice, and on a value of the wrong type for a known field.               *)
TomlOk(fmLines) ==
    /\ \A i \in 1..Len(fmLines) : TomlLine(fmLines[i]).syntax
    /\ \A i, j \in 1..Len(fmLines) :
          (i < j /\ ~TomlLine(fmLines[i]).blank /\ ~TomlLine(fmLines[j]).blank)
              => TomlLine(fmLines[i]).key # TomlLine(fmLines[j]).key
    /\ \A i \in 1..Len(fmLines) :
          TomlLine(fmLines[i]).key \in FrontMatterKeys => TomlLine(fmLines[i]).typed

TomlField(fmLines, key) ==
    IF \E i \in 1..Len(fmLines) : TomlLine(fmLines[i]).key = key
    THEN LET i == CHOOSE k \in 1..Len(fmLines) : TomlLine(fmLines[k]).key = key
         IN  TomlLine(fmLines[i]).val
    ELSE <<>>

toml_from_str(fmLines) ==
    [slug       |-> TomlField(fmLines, "slug"),
     title      |-> TomlField(fmLines, "title"),
     template   |-> TomlField(fmLines, "template"),
     tags       |-> IF \E i \in 1..Len(fmLines) : TomlLine(fmLines[i]).key = "tags"
                    THEN Some(TomlField(fmLines, "tags")) ELSE None,
     created_at |-> IF TomlField(fmLines, "created_at") = <<>> THEN None
                    ELSE Some(DateTimeOf(TomlField(fmLines, "created_at")[1]))]

(* The loop of extract_front_matter_and_content over lines i..Len(lines),   *)
(* i >= 2 (the code's index i-1 >= 1): st carries front_matter_string,      *)
(* done_with_front_matter and content_lines.                                *)
RECURSIVE SplitLines(_, _, _)
SplitLines(lines, i, st) ==
    IF i > Len(lines) THEN st
    ELSE IF st.done_with_front_matter
         THEN SplitLines(lines, i + 1,
                  [st EXCEPT !.content_lines = Append(@, lines[i])])
    ELSE IF lines[i] = FRONT_MATTER_DELIMITER
         THEN SplitLines(lines, i + 1, [st EXCEPT !.done_with_front_matter = TRUE])
    ELSE SplitLines(lines, i + 1,
                  [st EXCEPT !.front_matter_string = Append(@, lines[i])])

ParseErr(e) ==
    [ok |-> FALSE, err |-> e, front_matter |-> EmptyFrontMatter, content |-> <<>>]

extract_without_first_line_check(file) ==
    IF ~file.exists THEN ParseErr("io")
    ELSE LET st == SplitLines(file.lines, 2,
                       [front_matter_string |-> <<>>,
                        done_with_front_matter |-> FALSE,
                        content_lines |-> <<>>])
         IN  IF ~TomlOk(st.front_matter_string) THEN ParseErr("toml")
             ELSE [ok |-> TRUE, err |-> "",
                   front_matter |-> toml_from_str(st.front_matter_string),
                   content |-> st.content_lines]

(* A file is [exists, lines]. The result is Ok((front_matter, content)) or  *)
(* Err: "io" (open failed), "did not start with +++", "toml".               *)
extract_front_matter_and_content(file) ==
    IF ~file.exists THEN ParseErr("io")
    ELSE IF Len(file.lines) >= 1 /\ file.lines[1] # FRONT_MATTER_DELIMITER
         THEN ParseErr("did not start with +++")
    ELSE LET st == SplitLines(file.lines, 2,
                       [front_matter_string |-> <<>>,
                        done_with_front_matter |-> FALSE,
                        content_lines |-> <<>>])
         IN  IF ~TomlOk(st.front_matter_string) THEN ParseErr("toml")
             ELSE [ok |-> TRUE, err |-> "",
                   front_matter |-> toml_from_str(st.front_matter_string),
                   content |-> st.content_lines]

-----------------------------------------------------------------------------
(* The file system *)

(* Names of the children of content_root/blog, in read_dir order. *)
AllDirNames == <<"a", "x", "x.old", "b", "c">>
Names == SubSeq(AllDirNames, 1, NumDirs)

(* Path::file_stem of a directory name: the name without its extension *)
file_stem(name) == IF name = "x.old" THEN "x" ELSE name

NoContent == [exists |-> FALSE, lines |-> <<>>]
Content(lines) == [exists |-> TRUE, lines |-> lines]

(* A child of content_root/blog: kind "absent" (no such child), "file" (a   *)
(* non-directory child) or "dir"; a directory has its content.md, the       *)
(* creation time of that file, and the other files below it (relative       *)
(* paths, in walk order).                                                    *)
Absent == [kind |-> "absent", content |-> NoContent, ctime |-> 0, files |-> <<>>]
PlainFile == [kind |-> "file", content |-> NoContent, ctime |-> 0, files |-> <<>>]
Dir(content, ctime, files) ==
    [kind |-> "dir", content |-> content, ctime |-> ctime, files |-> files]

(* pulldown_cmark: an opaque pure function of the markdown text *)
markdown_to_html(markdown) == [i \in 1..Len(markdown) |-> <<"<p>", markdown[i]>>]

(* A file of output_root/blog *)
NoHtml == [state |-> "absent", html |-> <<>>]
TruncatedHtml == [state |-> "truncated", html |-> <<>>]
WrittenHtml(markdown) == [state |-> "written", html |-> markdown_to_html(markdown)]

(* Faults the environment can inject into one step of a scan *)
Faults == {"none", "filetype", "open", "write", "walk", "metadata"}

(* write_content_as_html: the file at output_dir/<file_name>.html after the *)
(* call. A failure of create_dir_all or open leaves it as it was; a failure *)
(* of writeln leaves it truncated.                                          *)
write_content_as_html(outmap, file_name, markdown, fault) ==
    IF fault = "open" THEN [ok |-> FALSE, out |-> outmap]
    ELSE IF fault = "write"
         THEN [ok |-> FALSE, out |-> [outmap EXCEPT ![file_name] = TruncatedHtml]]
    ELSE [ok |-> TRUE, out |-> [outmap EXCEPT ![file_name] = WrittenHtml(markdown)]]

(* find_associated_files: every file below the directory but content.md *)
find_associated_files(name, child) ==
    LET keep == SelectSeq(child.files, LAMBDA f : f # BLOG_CONTENT_FILE_NAME)
    IN  [i \in 1..Len(keep) |-> [relative_path |-> keep[i], full_path |-> <<name, keep[i]>>]]

default_slug_for_file(name) == file_stem(name)

NoEntry ==
    [title |-> "", source_file |-> "", associated_files |-> <<>>,
     html_content_file |-> "", slug |-> "", template_name |-> "", tags |-> <<>>,
     created_at |-> 0, parsed_markdown |-> <<>>]

(* parse_entry_dir after the HTML file was written: find_associated_files, *)
(* the creation time and the BlogEntry. parsed_markdown is a history field: *)
(* the body this call rendered (BlogEntry does not keep it).                *)
EntryAfterWrite(name, child, fault, fm, content, outmap) ==
    IF fault = "walk"
    THEN [ok |-> FALSE, err |-> "error reading from", entry |-> NoEntry, out |-> outmap]
    ELSE IF fault = "metadata"
    THEN [ok |-> FALSE, err |-> "error getting metadata", entry |-> NoEntry, out |-> outmap]
    ELSE [ok |-> TRUE, err |-> "",
          entry |->
            [title |-> UnwrapOr(fm.title, ""),
             source_file |-> name,
             associated_files |-> find_associated_files(name, child),
             html_content_file |-> name,
             slug |-> IF IsSome(fm.slug) THEN Unwrap(fm.slug)
                      ELSE default_slug_for_file(name),
             template_name |-> UnwrapOr(fm.template, DEFAULT_BLOG_ENTRY_TEMPLATE_NAME),
             tags |-> UnwrapOr(fm.tags, <<>>),
             created_at |-> UnwrapOr(fm.created_at, child.ctime),
             parsed_markdown |-> content],
          out |-> outmap]

(* parse_entry_dir after write_content_as_html returned *)
EntryAfterRender(name, child, fault, parsed, written) ==
    IF ~written.ok
    THEN [ok |-> FALSE, err |-> "error writing content as HTML", entry |-> NoEntry,
          out |-> written.out]
    ELSE EntryAfterWrite(name, child, fault, parsed.front_matter, parsed.content,
                         written.out)

(* parse_entry_dir after extract_front_matter_and_content returned *)
EntryAfterExtract(name, child, outmap, fault, parsed) ==
    IF ~parsed.ok
    THEN [ok |-> FALSE, err |-> "error extracting front matter", entry |-> NoEntry,
          out |-> outmap]
    ELSE EntryAfterRender(name, child, fault, parsed,
                          write_content_as_html(outmap, name, parsed.content, fault))

parse_entry_dir(name, child, outmap, fault) ==
    EntryAfterExtract(name, child, outmap, fault,
                      extract_front_matter_and_content(child.content))

(* Site::from_dir: what the loop body does with the result r of             *)
(* parse_entry_dir: propagate the error, reject a slug already accumulated, *)
(* or push the entry.                                                       *)
PushSkippingBad(acc, r) ==
    IF ~r.ok \/ \E i \in 1..Len(acc) : acc[i].slug = r.entry.slug
    THEN [ok |-> TRUE, err |-> "", blog_entries |-> acc, out |-> r.out]
    ELSE [ok |-> TRUE, err |-> "", blog_entries |-> Append(acc, r.entry), out |-> r.out]

PushWithoutSlugCheck(acc, r) ==
    IF ~r.ok
    THEN [ok |-> FALSE, err |-> r.err, blog_entries |-> acc, out |-> r.out]
    ELSE [ok |-> TRUE, err |-> "", blog_entries |-> Append(acc, r.entry), out |-> r.out]

PushEntry(acc, r) ==
    IF ~r.ok
    THEN [ok |-> FALSE, err |-> r.err, blog_entries |-> acc, out |-> r.out]
    ELSE IF \E i \in 1..Len(acc) : acc[i].slug = r.entry.slug
    THEN [ok |-> FALSE, err |-> "non-unique slug", blog_entries |-> acc, out |-> r.out]
    ELSE [ok |-> TRUE, err |-> "", blog_entries |-> Append(acc, r.entry), out |-> r.out]

(* The body of the for loop of Site::from_dir for one child: is_dir,        *)
(* parse_entry_dir, the slug check and the push.                            *)
ScanChild(acc, name, child, outmap, fault) ==
    IF fault = "filetype"
    THEN [ok |-> FALSE, err |-> "error determining file type", blog_entries |-> acc,
          out |-> outmap]
    ELSE IF child.kind # "dir"
    THEN [ok |-> TRUE, err |-> "", blog_entries |-> acc, out |-> outmap]
    ELSE PushEntry(acc, parse_entry_dir(name, child, outmap, fault))

(* Vec::sort_by(|a, b| a.created_at.cmp(&b.created_at).reverse()): a stable  *)
(* sort, so an element goes after every element that does not compare       *)
(* greater than it, i.e. after every element created at the same time or    *)
(* later.                                                                   *)
RECURSIVE InsertStable(_, _)
InsertStable(sorted, e) ==
    IF sorted = <<>> THEN <<e>>
    ELSE IF Head(sorted).created_at >= e.created_at
         THEN <<Head(sorted)>> \o InsertStable(Tail(sorted), e)
         ELSE <<e>> \o sorted

RECURSIVE InsertAscending(_, _)
InsertAscending(sorted, e) ==
    IF sorted = <<>> THEN <<e>>
    ELSE IF Head(sorted).created_at <= e.created_at
         THEN <<Head(sorted)>> \o InsertAscending(Tail(sorted), e)
         ELSE <<e>> \o sorted

RECURSIVE InsertUnstable(_, _)
InsertUnstable(sorted, e) ==
    IF sorted = <<>> THEN <<e>>
    ELSE IF Head(sorted).created_at > e.created_at
         THEN <<Head(sorted)>> \o InsertUnstable(Tail(sorted), e)
         ELSE <<e>> \o sorted

RECURSIVE SortAscendingPrefix(_, _)
SortAscendingPrefix(entries, i) ==
    IF i = 0 THEN <<>> ELSE InsertAscending(SortAscendingPrefix(entries, i - 1), entries[i])

RECURSIVE SortUnstablePrefix(_, _)
SortUnstablePrefix(entries, i) ==
    IF i = 0 THEN <<>> ELSE InsertUnstable(SortUnstablePrefix(entries, i - 1), entries[i])

SortAscending(entries) == SortAscendingPrefix(entries, Len(entries))
SortUnstable(entries) == SortUnstablePrefix(entries, Len(entries))

RECURSIVE SortPrefix(_, _)
SortPrefix(entries, i) ==
    IF i = 0 THEN <<>> ELSE InsertStable(SortPrefix(entries, i - 1), entries[i])

sort_by_created_at_reversed(entries) == SortPrefix(entries, Len(entries))

(* Site::from_dir run to completion on a tree that does not change          *)
(* meanwhile: the scan of children i..NumDirs from the accumulator acc. The *)
(* fault, if any, is injected at child faultAt (0: at read_dir itself).     *)
RECURSIVE ScanFrom(_, _, _, _, _, _)

ScanAfter(t, i, r, faultAt, fault) ==
    IF r.ok THEN ScanFrom(t, i + 1, r.blog_entries, r.out, faultAt, fault) ELSE r

ScanFrom(t, i, acc, outmap, faultAt, fault) ==
    IF i > NumDirs THEN [ok |-> TRUE, err |-> "", blog_entries |-> acc, out |-> outmap]
    ELSE IF t[Names[i]].kind = "absent"
         THEN ScanFrom(t, i + 1, acc, outmap, faultAt, fault)
    ELSE ScanAfter(t, i,
                   ScanChild(acc, Names[i], t[Names[i]], outmap,
                             IF faultAt = i THEN fault ELSE "none"),
                   faultAt, fault)

(* The end of Site::from_dir: sort and Ok(Site), or the error *)
FinishScan(r) ==
    IF r.ok
    THEN [r EXCEPT !.blog_entries = sort_by_created_at_reversed(r.blog_entries)]
    ELSE [r EXCEPT !.blog_entries = <<>>]

from_dir(t, outmap, faultAt, fault) ==
    IF faultAt = 0 /\ fault # "none"
    THEN [ok |-> FALSE, err |-> "error reading from", blog_entries |-> <<>>, out |-> outmap]
    ELSE FinishScan(ScanFrom(t, 1, <<>>, outmap, faultAt, fault))

-----------------------------------------------------------------------------
(* context.rs *)

PAGE_SIZE == 10

(* format_datetime: "<month> <ordinal day>, <year>" of the instant *)
format_datetime(datetime) == <<"%B %o, %Y", datetime>>

(* BlogEntry::to_stub *)
to_stub(entry) ==
    [title |-> entry.title, tags |-> entry.tags, url |-> <<"/blog/", entry.slug>>,
     created_at |-> format_datetime(entry.created_at)]

(* Iterator::skip and Iterator::take *)
Skip(s, n) == SubSeq(s, n + 1, Len(s))
Take(s, n) == SubSeq(s, 1, IF n < Len(s) THEN n ELSE Len(s))

Stubs(entries) == [i \in 1..Len(entries) |-> to_stub(entries[i])]

(* usize: the values 0..UsizeMax. Without overflow checks (the release     *)
(* profile) * and + wrap modulo 2^UsizeBits; with overflow checks (the      *)
(* debug profile) an overflowing * or + panics.                             *)
UsizeMax == 2^UsizeBits - 1
usize_mul(a, b) == (a * b) % (UsizeMax + 1)
usize_add(a, b) == (a + b) % (UsizeMax + 1)

calculate_pages_off_by_one(current_page, start_index, total_size, page_size) ==
    [previous_page |-> IF current_page = 1 THEN None ELSE Some(current_page - 1),
     next_page |-> IF total_size >= usize_add(start_index, page_size)
                   THEN Some(usize_add(current_page, 1)) ELSE None]

calculate_pages(current_page, start_index, total_size, page_size) ==
    [previous_page |-> IF current_page = 1 THEN None ELSE Some(current_page - 1),
     next_page |-> IF total_size > usize_add(start_index, page_size)
                   THEN Some(usize_add(current_page, 1)) ELSE None]

(* Whether an addition of calculate_pages overflows *)
calculate_pages_overflows(current_page, start_index, total_size, page_size) ==
    \/ start_index + page_size > UsizeMax
    \/ (total_size > start_index + page_size /\ current_page + 1 > UsizeMax)

(* Whether a pager overflows for the page: in (page - 1) * PAGE_SIZE, or    *)
(* else in calculate_pages, called with the number of entries paged.        *)
pager_overflows(page, total_size) ==
    \/ (page - 1) * PAGE_SIZE > UsizeMax
    \/ calculate_pages_overflows(page, (page - 1) * PAGE_SIZE, total_size, PAGE_SIZE)

(* The context a pager returns: the page's stubs and the two page links *)
PageContext(title, tag, entries, pages) ==
    [title |-> title, tag |-> tag, entries |-> entries,
     previous_page |-> pages.previous_page, next_page |-> pages.next_page]

(* Site::build_blog_index_context *)
IndexContextFrom(blogEntries, page, start_index) ==
    PageContext("The Rotoclone Zone Blog", "",
                Stubs(Take(Skip(blogEntries, start_index), PAGE_SIZE)),
                calculate_pages(page, start_index, Len(blogEntries), PAGE_SIZE))

build_blog_index_context(blogEntries, page) ==
    IndexContextFrom(blogEntries, page, usize_mul(page - 1, PAGE_SIZE))

(* main.rs get_blog_index: the context, or the panic of an overflow under   *)
(* overflow checks.                                                         *)
get_blog_index(blogEntries, page, overflow_checks) ==
    IF overflow_checks /\ pager_overflows(page, Len(blogEntries))
    THEN [kind |-> "panic", route |-> "index", ctx |-> None]
    ELSE [kind |-> "index", route |-> "index",
          ctx |-> Some(build_blog_index_context(blogEntries, page))]

(* Vec::contains on the tags of an entry *)
HasTag(entry, tag) == \E k \in 1..Len(entry.tags) : entry.tags[k] = tag

(* Site::build_blog_tag_context: None when no entry carries the tag *)
TagContextNoneOnEmptyPage(all_matching_entries, tag, page, start_index) ==
    IF Take(Skip(all_matching_entries, start_index), PAGE_SIZE) = <<>> THEN None
    ELSE Some(PageContext("The Rotoclone Zone Blog - Posts Tagged", tag,
                  Stubs(Take(Skip(all_matching_entries, start_index), PAGE_SIZE)),
                  calculate_pages(page, start_index, Len(all_matching_entries), PAGE_SIZE)))

TagContextFrom(all_matching_entries, tag, page, start_index) ==
    IF all_matching_entries = <<>> THEN None
    ELSE Some(PageContext("The Rotoclone Zone Blog - Posts Tagged", tag,
                  Stubs(Take(Skip(all_matching_entries, start_index), PAGE_SIZE)),
                  calculate_pages(page, start_index, Len(all_matching_entries), PAGE_SIZE)))

build_blog_tag_context(blogEntries, tag, page) ==
    TagContextFrom(SelectSeq(blogEntries, LAMBDA e : HasTag(e, tag)), tag, page,
                   usize_mul(page - 1, PAGE_SIZE))

(* Whether build_blog_tag_context overflows: in (page - 1) * PAGE_SIZE,     *)
(* computed first, or in calculate_pages, reached when an entry matches.    *)
tag_pager_overflows(all_matching_entries, page) ==
    \/ (page - 1) * PAGE_SIZE > UsizeMax
    \/ (all_matching_entries # <<>> /\ pager_overflows(page, Len(all_matching_entries)))

(* main.rs get_blog_tag: the context if any, or the panic of an overflow    *)
(* under overflow checks.                                                   *)
get_blog_tag(blogEntries, tag, page, overflow_checks) ==
    IF overflow_checks
          /\ tag_pager_overflows(SelectSeq(blogEntries, LAMBDA e : HasTag(e, tag)), page)
    THEN [kind |-> "panic", route |-> "tag", ctx |-> None]
    ELSE [kind |-> "tag", route |-> "tag",
          ctx |-> build_blog_tag_context(blogEntries, tag, page)]

-----------------------------------------------------------------------------
(* Inputs drawn by the specifications *)

Seqs(S, n) == UNION {[1..k -> S] : k \in 0..n}

ParseAlphabet == {FRONT_MATTER_DELIMITER, LineSlugX, LineTagsT, LineText, ""}
ParseInputs == {NoContent} \cup {Content(l) : l \in Seqs(ParseAlphabet, MaxLines)}

(* content.md files of the directory children *)
FileOld == Content(<<FRONT_MATTER_DELIMITER, LineCreated1, FRONT_MATTER_DELIMITER, LineText>>)
FileNew == Content(<<FRONT_MATTER_DELIMITER, LineCreated2, LineTagsT, FRONT_MATTER_DELIMITER,
                     LineText, LineText2>>)
FileSlugY == Content(<<FRONT_MATTER_DELIMITER, LineSlugY, FRONT_MATTER_DELIMITER, LineText2>>)
FileMalformed == Content(<<LineText>>)
FileBadToml == Content(<<FRONT_MATTER_DELIMITER, LineText, FRONT_MATTER_DELIMITER>>)
FileUnclosed == Content(<<FRONT_MATTER_DELIMITER, LineSlugX, LineCreated1>>)

DirOld == Dir(FileOld, 1, <<BLOG_CONTENT_FILE_NAME>>)
DirNew == Dir(FileNew, 1, <<BLOG_CONTENT_FILE_NAME, "img.png">>)
DirSlugY == Dir(FileSlugY, 2, <<BLOG_CONTENT_FILE_NAME>>)
DirMalformed == Dir(FileMalformed, 1, <<BLOG_CONTENT_FILE_NAME>>)
DirBadToml == Dir(FileBadToml, 1, <<BLOG_CONTENT_FILE_NAME>>)
DirUnclosed == Dir(FileUnclosed, 1, <<BLOG_CONTENT_FILE_NAME>>)
DirNoContent == Dir(NoContent, 0, <<"img.png">>)

Children == {Absent, PlainFile, DirOld, DirNew, DirSlugY, DirMalformed, DirBadToml,
             DirUnclosed, DirNoContent}

Trees == [Range(Names) -> Children]

EmptyOut == [n \in Range(Names) |-> NoHtml]

-----------------------------------------------------------------------------
(* State of the live site while a function-level specification runs: no    *)
(* content, nothing built, nobody reading.                                  *)
Parked ==
    /\ tree = [n \in Range(Names) |-> Absent]
    /\ out = EmptyOut
    /\ queue = <<>>
    /\ wpc = "idle"
    /\ idx = 0
    /\ blog_entries = <<>>
    /\ built = <<>>
    /\ werr = ""
    /\ site = <<>>
    /\ wlocked = FALSE
    /\ rpc = <<>>
    /\ rreq = <<>>
    /\ robs = <<>>
    /\ gen = [site |-> 0, build |-> 0, returned |-> 0]
    /\ rhist = <<>>
    /\ edits = 0

-----------------------------------------------------------------------------
(* SpecParse: extract_front_matter_and_content applied to a content file *)

InitParse == Parked /\ arg \in ParseInputs /\ ret = <<>>

CallExtract ==
    /\ ret = <<>>
    /\ ret' = <<extract_front_matter_and_content(arg)>>
    /\ UNCHANGED <<liveVars, arg>>

NextParse == CallExtract

SpecParse == InitParse /\ [][NextParse]_vars

-----------------------------------------------------------------------------
(* SpecBuild: Site::from_dir run on a content tree into an empty output    *)
(* directory, with at most one injected fault.                              *)

InitBuild ==
    /\ Parked
    /\ arg = [children |-> <<>>, tree |-> [n \in Range(Names) |-> Absent],
              faultAt |-> 0, fault |-> "none"]
    /\ ret = <<>>

(* The next child of content_root/blog, in read_dir order *)
PutChild ==
    /\ Len(arg.children) < NumDirs
    /\ \E c \in Children :
          arg' = [arg EXCEPT !.children = Append(@, c),
                             !.tree[Names[Len(arg.children) + 1]] = c]
    /\ UNCHANGED <<liveVars, ret>>

(* The fault the file system will raise during the call: at read_dir        *)
(* (faultAt = 0) or while child faultAt is processed.                       *)
PickFault ==
    /\ Len(arg.children) = NumDirs
    /\ arg.fault = "none"
    /\ ret = <<>>
    /\ \/ arg' = [arg EXCEPT !.faultAt = 0, !.fault = "read_dir"]
       \/ \E i \in 1..NumDirs, f \in Faults \ {"none"} :
              arg' = [arg EXCEPT !.faultAt = i, !.fault = f]
    /\ UNCHANGED <<liveVars, ret>>

CallFromDir ==
    /\ Len(arg.children) = NumDirs
    /\ ret = <<>>
    /\ ret' = <<from_dir(arg.tree, EmptyOut, arg.faultAt, arg.fault)>>
    /\ UNCHANGED <<liveVars, arg>>

NextBuild == PutChild \/ PickFault \/ CallFromDir

SpecBuild == InitBuild /\ [][NextBuild]_vars

-----------------------------------------------------------------------------
(* SpecPages: the pagers applied to a snapshot of up to MaxTotal entries,  *)
(* newest first; every stride-th entry carries the tag "t", every odd one   *)
(* the tag "u" before it.                                                   *)

PageEntry(i, stride) ==
    [title |-> "T", source_file |-> <<"post", i>>, associated_files |-> <<>>,
     html_content_file |-> <<"post", i>>, slug |-> <<"post", i>>,
     template_name |-> DEFAULT_BLOG_ENTRY_TEMPLATE_NAME,
     tags |-> (IF i % 2 = 1 THEN <<"u">> ELSE <<>>) \o (IF i % stride = 0 THEN <<"t">> ELSE <<>>),
     created_at |-> MaxTotal + 1 - i, parsed_markdown |-> <<>>]

QueryTags == {"t", "u", "T"}

InitPages ==
    /\ Parked
    /\ \E k \in 1..MaxStride :
          arg = [blog_entries |-> <<>>, stride |-> k, page |-> 1, tag |-> ""]
    /\ ret = <<>>

AddEntry ==
    /\ ret = <<>>
    /\ Len(arg.blog_entries) < MaxTotal
    /\ arg' = [arg EXCEPT !.blog_entries =
                   Append(@, PageEntry(Len(arg.blog_entries) + 1, arg.stride))]
    /\ UNCHANGED <<liveVars, ret>>

(* get_blog_index: a request for page p *)
CallIndex ==
    /\ ret = <<>>
    /\ \E p \in 1..MaxPage :
          /\ arg' = [arg EXCEPT !.page = p]
          /\ ret' = <<[kind |-> "index",
                       ctx |-> Some(build_blog_index_context(arg.blog_entries, p))]>>
    /\ UNCHANGED liveVars

(* get_blog_tag: a request for page p of tag t *)
CallTag ==
    /\ ret = <<>>
    /\ \E p \in 1..MaxPage, t \in QueryTags :
          /\ arg' = [arg EXCEPT !.page = p, !.tag = t]
          /\ ret' = <<[kind |-> "tag",
                       ctx |-> build_blog_tag_context(arg.blog_entries, t, p)]>>
    /\ UNCHANGED liveVars

NextPages == AddEntry \/ CallIndex \/ CallTag

(* A request for any page a usize holds, served by a build with or without  *)
(* overflow checks.                                                         *)
CallIndexAnyPage ==
    /\ ret = <<>>
    /\ \E p \in 1..UsizeMax, overflow_checks \in BOOLEAN :
          /\ arg' = [arg EXCEPT !.page = p]
          /\ ret' = <<get_blog_index(arg.blog_entries, p, overflow_checks)>>
    /\ UNCHANGED liveVars

CallTagAnyPage ==
    /\ ret = <<>>
    /\ \E p \in 1..UsizeMax, t \in QueryTags, overflow_checks \in BOOLEAN :
          /\ arg' = [arg EXCEPT !.page = p, !.tag = t]
          /\ ret' = <<get_blog_tag(arg.blog_entries, t, p, overflow_checks)>>
    /\ UNCHANGED liveVars

NextUsize == AddEntry \/ CallIndexAnyPage \/ CallTagAnyPage

SpecPages == InitPages /\ [][NextPages]_vars

(* SpecUsize: the pagers applied to every page number a usize holds *)
SpecUsize == InitPages /\ [][NextUsize]_vars

-----------------------------------------------------------------------------
(* Spec: the running server. One Hotwatch thread runs the callback of      *)
(* UpdatingSite::from_dir for one event after the other; request handlers   *)
(* read the site through the RwLock; the environment edits the content      *)
(* tree.                                                                    *)

Readers == 1..NumReaders

(* Children an edit can put into content_root/blog *)
LiveChildren == {Absent, DirOld, DirNew, DirUnclosed, DirMalformed}

(* The content trees the server is started on: two entries, or one *)
InitialTree ==
    [n \in Range(Names) |->
        IF n = "a" THEN DirOld ELSE IF n = "x" THEN DirNew ELSE Absent]

InitialTrees == {InitialTree, [InitialTree EXCEPT !["x"] = Absent]}

(* hotwatch::Event kinds the callback discards *)
IgnoredEventsWithoutError == {"NoticeRemove", "NoticeWrite"}

IgnoredEvents == {"NoticeRemove", "NoticeWrite", "Error"}

(* Events the debounced watcher reports for a change of one child *)
EventsFor(old, new) ==
    IF old.kind = "absent" THEN <<"Create">>
    ELSE IF new.kind = "absent" THEN <<"NoticeRemove", "Remove">>
    ELSE <<"NoticeWrite", "Write">>

NoRequest == [kind |-> "none", slug |-> ""]
Requests == {[kind |-> "index", slug |-> ""]}
            \cup {[kind |-> "entry", slug |-> g] : g \in {"a", "x"}}
NoObservation == [entries |-> <<>>, html |-> <<>>, done |-> FALSE]
NoHistory == [snapshot |-> <<>>, gen |-> 0, floor |-> 0]

(* main.rs rocket(): the rendered-HTML directory is removed, then           *)
(* UpdatingSite::from_dir builds the first Site (a failure panics).         *)
Started(r) ==
    /\ r.ok
    /\ out = r.out
    /\ site = r.blog_entries

StartedOn(t) ==
    /\ tree = t
    /\ Started(from_dir(t, EmptyOut, 0, "none"))

Init ==
    /\ \E t \in InitialTrees : StartedOn(t)
    /\ queue = <<>>
    /\ wpc = "idle"
    /\ idx = 0
    /\ blog_entries = <<>>
    /\ built = <<>>
    /\ werr = ""
    /\ wlocked = FALSE
    /\ rpc = [r \in Readers |-> "idle"]
    /\ rreq = [r \in Readers |-> NoRequest]
    /\ robs = [r \in Readers |-> NoObservation]
    /\ gen = [site |-> 1, build |-> 1, returned |-> 1]
    /\ rhist = [r \in Readers |-> NoHistory]
    /\ edits = 0
    /\ arg = <<>>
    /\ ret = <<>>

readerVars == <<rpc, rreq, robs, rhist>>
watcherVars == <<wpc, idx, blog_entries, built, werr, wlocked>>

(* The environment replaces one child of content_root/blog *)
EditChild(limit, dirs) ==
    /\ edits < limit
    /\ \E n \in Range(SubSeq(Names, 1, dirs)) : \E c \in LiveChildren \ {tree[n]} :
          /\ tree' = [tree EXCEPT ![n] = c]
          /\ queue' = queue \o EventsFor(tree[n], c)
    /\ edits' = edits + 1
    /\ UNCHANGED <<out, watcherVars, site, readerVars, gen, arg, ret>>

Edit == EditChild(MaxEdits, EditableDirs)

(* The watcher reports an error of its own *)
ErrorReported(limit) ==
    /\ edits < limit
    /\ queue' = Append(queue, "Error")
    /\ edits' = edits + 1
    /\ UNCHANGED <<tree, out, watcherVars, site, readerVars, gen, arg, ret>>

WatchError == ErrorReported(MaxEdits)

(* updating_site.rs:37-43: the callback is entered with the next event; a   *)
(* notice or an error returns at once, any other event starts a rebuild.    *)
CallbackDroppingWhileBusy ==
    /\ queue # <<>>
    /\ queue' = Tail(queue)
    /\ IF wpc # "idle" \/ Head(queue) \in IgnoredEvents
       THEN UNCHANGED <<wpc, idx, blog_entries, werr, gen>>
       ELSE /\ wpc' = "scan"
            /\ idx' = 0
            /\ blog_entries' = <<>>
            /\ werr' = ""
            /\ gen' = [gen EXCEPT !.build = @ + 1]
    /\ UNCHANGED <<tree, out, built, site, wlocked, readerVars, edits, arg, ret>>

CallbackLockingFirst ==
    /\ wpc = "idle"
    /\ queue # <<>>
    /\ queue' = Tail(queue)
    /\ IF Head(queue) \in IgnoredEvents
       THEN UNCHANGED <<wpc, idx, blog_entries, werr, gen, wlocked>>
       ELSE /\ wpc' = "scan"
            /\ idx' = 0
            /\ blog_entries' = <<>>
            /\ werr' = ""
            /\ gen' = [gen EXCEPT !.build = @ + 1]
            /\ wlocked' = TRUE
    /\ UNCHANGED <<tree, out, built, site, readerVars, edits, arg, ret>>

Callback ==
    /\ wpc = "idle"
    /\ queue # <<>>
    /\ queue' = Tail(queue)
    /\ IF Head(queue) \in IgnoredEvents
       THEN UNCHANGED <<wpc, idx, blog_entries, werr, gen>>
       ELSE /\ wpc' = "scan"
            /\ idx' = 0
            /\ blog_entries' = <<>>
            /\ werr' = ""
            /\ gen' = [gen EXCEPT !.build = @ + 1]
    /\ UNCHANGED <<tree, out, built, site, wlocked, readerVars, edits, arg, ret>>

(* updating_site.rs:49: Err(e) => println!("Error rebuilding site: {}", e) *)
RebuildFailedInstallsPartial(err, entries) ==
    /\ werr' = err
    /\ wpc' = "idle"
    /\ idx' = 0
    /\ blog_entries' = <<>>
    /\ site' = entries
    /\ UNCHANGED <<built, wlocked, gen>>

RebuildFailed(err, entries) ==
    /\ werr' = err
    /\ wpc' = "idle"
    /\ idx' = 0
    /\ blog_entries' = <<>>
    /\ UNCHANGED <<built, site, wlocked, gen>>

(* site.rs:88-93: read_dir of content_root/blog *)
ReadDir ==
    /\ wpc = "scan"
    /\ idx = 0
    /\ \/ /\ idx' = 1
          /\ UNCHANGED <<wpc, blog_entries, built, werr, site, wlocked, gen>>
       \/ RebuildFailed("error reading from", blog_entries)
    /\ UNCHANGED <<tree, out, queue, readerVars, edits, arg, ret>>

(* The scan goes on with the result r of one loop iteration *)
Scanned(r) ==
    /\ out' = r.out
    /\ IF r.ok
       THEN /\ blog_entries' = r.blog_entries
            /\ idx' = idx + 1
            /\ UNCHANGED <<wpc, built, werr, site, wlocked, gen>>
       ELSE RebuildFailed(r.err, r.blog_entries)

(* site.rs:94-114: one iteration of the for loop of Site::from_dir *)
ScanStep ==
    /\ wpc = "scan"
    /\ idx \in 1..NumDirs
    /\ IF tree[Names[idx]].kind = "absent"
       THEN /\ idx' = idx + 1
            /\ UNCHANGED <<out, wpc, blog_entries, built, werr, site, wlocked, gen>>
       ELSE \E fault \in Faults :
               Scanned(ScanChild(blog_entries, Names[idx], tree[Names[idx]], out, fault))
    /\ UNCHANGED <<tree, queue, readerVars, edits, arg, ret>>

(* site.rs:117-118 and updating_site.rs:45-46: the sort, Ok(site), and the  *)
(* callback's Ok arm up to the call of write().                             *)
FinishBuild ==
    /\ wpc = "scan"
    /\ idx > NumDirs
    /\ built' = sort_by_created_at_reversed(blog_entries)
    /\ blog_entries' = <<>>
    /\ idx' = 0
    /\ wpc' = "locking"
    /\ UNCHANGED <<tree, out, queue, werr, site, wlocked, readerVars, gen, edits, arg, ret>>

(* RwLock::write: granted when no guard is held *)
CanWriteWithoutExclusion == TRUE

CanWrite == ~wlocked /\ \A r \in Readers : rpc[r] # "reading"

(* RwLock::read: granted when no write guard is held *)
CanRead == ~wlocked

(* updating_site.rs:47: hotwatch_updating_site.write().unwrap() *)
AcquireWrite ==
    /\ wpc = "locking"
    /\ CanWrite
    /\ wlocked' = TRUE
    /\ wpc' = "assign"
    /\ UNCHANGED <<tree, out, queue, idx, blog_entries, built, werr, site, readerVars,
                   gen, edits, arg, ret>>

(* updating_site.rs:47: ".site = site" through the write guard *)
AssignForgotten == UNCHANGED site

Assign == site' = built

(* updating_site.rs:47: the assignment, then the guard is dropped at the    *)
(* end of the statement and the callback returns.                           *)
AssignSite ==
    /\ wpc = "assign"
    /\ Assign
    /\ gen' = [gen EXCEPT !.site = IF site' = built THEN gen.build ELSE @]
    /\ wpc' = "release"
    /\ UNCHANGED <<tree, out, queue, idx, blog_entries, built, werr, wlocked, readerVars,
                   edits, arg, ret>>

ReleaseWrite ==
    /\ wpc = "release"
    /\ wlocked' = FALSE
    /\ built' = <<>>
    /\ gen' = [gen EXCEPT !.returned = gen.build]
    /\ wpc' = "idle"
    /\ UNCHANGED <<tree, out, queue, idx, blog_entries, werr, site, readerVars,
                   edits, arg, ret>>

(* main.rs: a handler takes updating_site.read().unwrap() for a request *)
AcquireRead(r) ==
    /\ rpc[r] = "idle"
    /\ CanRead
    /\ \E q \in Requests : rreq' = [rreq EXCEPT ![r] = q]
    /\ rpc' = [rpc EXCEPT ![r] = "reading"]
    /\ robs' = [robs EXCEPT ![r] = NoObservation]
    /\ rhist' = [rhist EXCEPT ![r] = [snapshot |-> site, gen |-> gen.site,
                                      floor |-> gen.returned]]
    /\ UNCHANGED <<tree, out, queue, watcherVars, site, gen, edits, arg, ret>>

(* get_blog_index -> build_blog_index_context: the iterator over            *)
(* blog_entries yields the next entry.                                      *)
ReadNextEntry(r) ==
    /\ rpc[r] = "reading"
    /\ rreq[r].kind = "index"
    /\ Len(robs[r].entries) < Len(site)
    /\ robs' = [robs EXCEPT ![r].entries = Append(@, site[Len(@) + 1]),
                            ![r].done = (Len(robs[r].entries) + 1 = Len(site))]
    /\ UNCHANGED <<tree, out, queue, watcherVars, site, rpc, rreq, rhist, gen, edits,
                   arg, ret>>

(* An index request over a site without entries has nothing to read *)
ReadNoEntry(r) ==
    /\ rpc[r] = "reading"
    /\ rreq[r].kind = "index"
    /\ ~robs[r].done
    /\ Len(site) = 0
    /\ robs' = [robs EXCEPT ![r].done = TRUE]
    /\ UNCHANGED <<tree, out, queue, watcherVars, site, rpc, rreq, rhist, gen, edits,
                   arg, ret>>

(* main.rs get_blog_entry: find the entry by slug *)
FindEntry(entries, slug) ==
    IF \E i \in 1..Len(entries) : entries[i].slug = slug
    THEN Some(entries[CHOOSE i \in 1..Len(entries) :
                   entries[i].slug = slug /\ \A j \in 1..(i - 1) : entries[j].slug # slug])
    ELSE None

(* get_blog_entry -> build_blog_entry_context: read_to_string of the        *)
(* entry's html_content_file; nothing is read when no entry has the slug.   *)
ReadHtml(r, found) ==
    robs' = [robs EXCEPT ![r].done = TRUE,
                         ![r].entries = found,
                         ![r].html = IF found = <<>> THEN <<>>
                                     ELSE <<out[found[1].html_content_file]>>]

ReadEntryHtml(r) ==
    /\ rpc[r] = "reading"
    /\ rreq[r].kind = "entry"
    /\ ~robs[r].done
    /\ ReadHtml(r, FindEntry(site, rreq[r].slug))
    /\ UNCHANGED <<tree, out, queue, watcherVars, site, rpc, rreq, rhist, gen, edits,
                   arg, ret>>

(* The handler returns and its read guard is dropped *)
ReleaseRead(r) ==
    /\ rpc[r] = "reading"
    /\ robs[r].done
    /\ rpc' = [rpc EXCEPT ![r] = "idle"]
    /\ rreq' = [rreq EXCEPT ![r] = NoRequest]
    /\ robs' = [robs EXCEPT ![r] = NoObservation]
    /\ rhist' = [rhist EXCEPT ![r] = NoHistory]
    /\ UNCHANGED <<tree, out, queue, watcherVars, site, gen, edits, arg, ret>>

Next ==
    \/ Edit
    \/ WatchError
    \/ Callback
    \/ ReadDir
    \/ ScanStep
    \/ FinishBuild
    \/ AcquireWrite
    \/ AssignSite
    \/ ReleaseWrite
    \/ \E r \in Readers : AcquireRead(r)
    \/ \E r \in Readers : ReadNextEntry(r)
    \/ \E r \in Readers : ReadNoEntry(r)
    \/ \E r \in Readers : ReadEntryHtml(r)
    \/ \E r \in Readers : ReleaseRead(r)

Spec == Init /\ [][Next]_vars

-----------------------------------------------------------------------------
(* SpecWatch: the watcher under a burst of up to MaxBurst edits of the      *)
(* first child of content_root/blog, with one request handler. The callbacks run    *)
(* one after the other on the watcher's thread and each runs to its end;    *)
(* a handler runs to its end; the lock grants a waiting write() once no     *)
(* read guard is held.                                                      *)

EditBurst == EditChild(MaxBurst, 1)

ErrorBurst == ErrorReported(MaxBurst)

Handler == CHOOSE r \in Readers : \A q \in Readers : r <= q

WatcherStep == Callback \/ ReadDir \/ FinishBuild \/ AssignSite \/ ReleaseWrite

(* The loop of Site::from_dir goes on: an iteration takes the scan to the   *)
(* next child or ends it with an error (the steps of ScanStep).             *)
ScanMoves ==
    /\ wpc = "scan"
    /\ idx \in 1..NumDirs
    /\ \E i \in 0..(NumDirs + 1), w \in {"scan", "idle"} :
          /\ idx' = i
          /\ wpc' = w
          /\ (i # idx \/ w # wpc)

HandlerStep ==
    ReadNextEntry(Handler) \/ ReadNoEntry(Handler) \/ ReadEntryHtml(Handler)
        \/ ReleaseRead(Handler)

NextWatch ==
    \/ EditBurst
    \/ ErrorBurst
    \/ Callback
    \/ ReadDir
    \/ ScanStep
    \/ FinishBuild
    \/ AcquireWrite
    \/ AssignSite
    \/ ReleaseWrite
    \/ AcquireRead(Handler)
    \/ ReadNextEntry(Handler)
    \/ ReadNoEntry(Handler)
    \/ ReadEntryHtml(Handler)
    \/ ReleaseRead(Handler)

SpecWatch ==
    /\ Init
    /\ [][NextWatch]_vars
    /\ WF_vars(WatcherStep)
    /\ WF_<<idx, wpc>>(ScanMoves)
    /\ SF_vars(AcquireWrite)
    /\ WF_vars(HandlerStep)

-----------------------------------------------------------------------------
(* Claims about the front-matter parser (SpecParse) *)

(* Index of the closing delimiter: the first line after line 1 equal to     *)
(* "+++"; Len(lines) + 1 when there is none.                                *)
ClosingLine(lines) ==
    IF \E k \in 2..Len(lines) : lines[k] = "+++"
    THEN CHOOSE k \in 2..Len(lines) :
             lines[k] = "+++" /\ \A j \in 2..(k - 1) : lines[j] # "+++"
    ELSE Len(lines) + 1

(* C10 as stated: the parser succeeds only on a file whose first line is    *)
(* "+++" and which has a later line equal to "+++".                         *)
C10_SucceedsOnlyWellDelimited ==
    (ret # <<>> /\ ret[1].ok) =>
        /\ Len(arg.lines) >= 1
        /\ arg.lines[1] = "+++"
        /\ \E k \in 2..Len(arg.lines) : arg.lines[k] = "+++"

(* C10 amended: the parser fails when the file cannot be opened, when its   *)
(* first line exists and differs from "+++", and when the lines after the   *)
(* first up to the next "+++" line (or up to the end of the file when no    *)
(* such line exists) do not deserialize; in every other case, the empty     *)
(* file and the file without closing delimiter included, it succeeds with   *)
(* the lines after the closing delimiter as content.                        *)
C10_ParserAcceptance ==
    ret # <<>> =>
        LET lines == arg.lines
            close == ClosingLine(lines)
        IN  /\ ret[1].ok <=>
                  /\ arg.exists
                  /\ (Len(lines) >= 1 => lines[1] = "+++")
                  /\ TomlOk(SubSeq(lines, 2, close - 1))
            /\ ret[1].ok => ret[1].content = SubSeq(lines, close + 1, Len(lines))
            /\ (ret[1].ok /\ close > Len(lines)) => ret[1].content = <<>>

(* C10 witness: a file whose first line is not the delimiter was rejected,  *)
(* being otherwise acceptable.                                              *)
C10_Witness ==
    /\ ret # <<>>
    /\ ~ret[1].ok
    /\ Len(arg.lines) = 3
    /\ arg.lines[1] = LineText
    /\ TomlOk(SubSeq(arg.lines, 2, ClosingLine(arg.lines) - 1))

-----------------------------------------------------------------------------
(* Claims about Site::from_dir (SpecBuild) *)

IndexOf(name) == CHOOSE i \in 1..NumDirs : Names[i] = name

DirChildren(t) == {n \in Range(Names) : t[n].kind = "dir"}

(* The directory child n cannot be parsed: its content.md is missing or not *)
(* parseable, or the injected fault hits it.                                *)
ChildFails(a, n) ==
    \/ ~extract_front_matter_and_content(a.tree[n].content).ok
    \/ (a.faultAt = IndexOf(n) /\ a.fault # "none")

(* C6: from_dir returns a Site only if every directory child parsed, and    *)
(* then the Site holds exactly one entry per directory child and none for   *)
(* the other children; if any directory child fails, the call returns an    *)
(* error and no entries.                                                    *)
C6_AllOrNothing ==
    ret # <<>> =>
        /\ ret[1].ok =>
              /\ \A n \in DirChildren(arg.tree) : ~ChildFails(arg, n)
              /\ Len(ret[1].blog_entries) = Cardinality(DirChildren(arg.tree))
              /\ {e.source_file : e \in Range(ret[1].blog_entries)} = DirChildren(arg.tree)
        /\ (\E n \in DirChildren(arg.tree) : ChildFails(arg, n)) =>
              (~ret[1].ok /\ ret[1].blog_entries = <<>>)

(* C6 witness: a build failed on a tree in which an earlier directory child *)
(* is fine and a later one is malformed, next to a non-directory child.     *)
C6_Witness ==
    /\ ret # <<>>
    /\ ~ret[1].ok
    /\ arg.fault = "none"
    /\ arg.tree[Names[1]] = DirOld
    /\ arg.tree[Names[2]] = PlainFile
    /\ arg.tree[Names[3]] = DirMalformed

Accumulated(a) == ScanFrom(a.tree, 1, <<>>, EmptyOut, a.faultAt, a.fault).blog_entries

PositionIn(s, e) == CHOOSE i \in 1..Len(s) : s[i] = e

(* C7: the entries of a returned Site are ordered by created_at descending, *)
(* entries created at the same time keep the order in which the scan        *)
(* accumulated them, and the result is a permutation of the accumulated     *)
(* entries.                                                                 *)
C7_SortedStable ==
    (ret # <<>> /\ ret[1].ok) =>
        LET es == ret[1].blog_entries
            acc == Accumulated(arg)
        IN  /\ \A i, j \in 1..Len(es) : i < j => es[i].created_at >= es[j].created_at
            /\ Len(es) = Len(acc)
            /\ Range(es) = Range(acc)
            /\ \A i, j \in 1..Len(es) :
                  (i < j /\ es[i].created_at = es[j].created_at)
                      => PositionIn(acc, es[i]) < PositionIn(acc, es[j])

(* C7 witness: a Site of three entries, two created at the same time, whose *)
(* order differs from the scan order.                                       *)
C7_Witness ==
    /\ ret # <<>>
    /\ ret[1].ok
    /\ Len(ret[1].blog_entries) = 3
    /\ ret[1].blog_entries # Accumulated(arg)
    /\ \E i \in 1..2 : ret[1].blog_entries[i].created_at = ret[1].blog_entries[i + 1].created_at

-----------------------------------------------------------------------------
(* Claims about the pagers (SpecPages) *)

Min(a, b) == IF a < b THEN a ELSE b

(* C8: page P of a snapshot of T entries holds the entries at 0-based       *)
(* indices [(P-1)*10, min(P*10, T)) in snapshot order, previous_page is P-1  *)
(* for P > 1 and none otherwise, next_page is P+1 if T > P*10 and none      *)
(* otherwise.                                                               *)
C8_IndexPage ==
    (ret # <<>> /\ ret[1].kind = "index") =>
        LET T == Len(arg.blog_entries)
            P == arg.page
            c == ret[1].ctx[1]
            lo == (P - 1) * 10
            hi == Min(P * 10, T)
        IN  /\ Len(c.entries) = (IF hi > lo THEN hi - lo ELSE 0)
            /\ \A k \in 1..Len(c.entries) :
                  /\ c.entries[k].url = <<"/blog/", arg.blog_entries[lo + k].slug>>
                  /\ c.entries[k].title = arg.blog_entries[lo + k].title
                  /\ c.entries[k].tags = arg.blog_entries[lo + k].tags
            /\ c.previous_page = (IF P > 1 THEN <<P - 1>> ELSE <<>>)
            /\ c.next_page = (IF T > P * 10 THEN <<P + 1>> ELSE <<>>)
            /\ (T = 25 /\ P = 1) =>
                  (Len(c.entries) = 10 /\ c.previous_page = <<>> /\ c.next_page = <<2>>)
            /\ (T = 25 /\ P = 3) => (Len(c.entries) = 5 /\ c.next_page = <<>>)
            /\ (T = 25 /\ P = 4) => (c.entries = <<>> /\ c.next_page = <<>>)

(* C8 witness: page 3 of 25 entries was built and holds the entries at      *)
(* indices 20..24.                                                          *)
C8_Witness ==
    /\ ret # <<>>
    /\ ret[1].kind = "index"
    /\ Len(arg.blog_entries) = 25
    /\ arg.page = 3
    /\ Len(ret[1].ctx[1].entries) = 5
    /\ ret[1].ctx[1].entries[1].url = <<"/blog/", <<"post", 21>>>>

(* Indices of the entries that carry the tag, and the position of such an   *)
(* entry among them.                                                        *)
Tagged(entries, tag) == {i \in 1..Len(entries) : tag \in Range(entries[i].tags)}
RankIn(M, i) == Cardinality({j \in M : j <= i})

(* C9: build_blog_tag_context gives None exactly when no entry carries the  *)
(* tag (compared exactly); otherwise a context holding page P of the        *)
(* entries that carry the tag, in snapshot order, with previous_page and    *)
(* next_page computed from the number of those entries; a page beyond the   *)
(* end of a known tag is a context with no entries.                         *)
C9_TagPage ==
    (ret # <<>> /\ ret[1].kind = "tag") =>
        LET es == arg.blog_entries
            P == arg.page
            M == Tagged(es, arg.tag)
            lo == (P - 1) * 10
            onPage == {i \in M : RankIn(M, i) > lo /\ RankIn(M, i) <= lo + 10}
        IN  /\ ret[1].ctx = <<>> <=> M = {}
            /\ M # {} =>
                  LET c == ret[1].ctx[1]
                  IN  /\ Len(c.entries) = Cardinality(onPage)
                      /\ \A i \in onPage :
                            c.entries[RankIn(M, i) - lo].url = <<"/blog/", es[i].slug>>
                      /\ c.previous_page = (IF P > 1 THEN <<P - 1>> ELSE <<>>)
                      /\ c.next_page = (IF Cardinality(M) > P * 10 THEN <<P + 1>> ELSE <<>>)
                      /\ c.tag = arg.tag

(* C9 witness: a known tag carried by 2 of 10 entries asked for page 2: a   *)
(* context without entries, not None.                                       *)
C9_Witness ==
    /\ ret # <<>>
    /\ ret[1].kind = "tag"
    /\ Len(arg.blog_entries) = 10
    /\ Cardinality(Tagged(arg.blog_entries, arg.tag)) = 2
    /\ arg.page = 2
    /\ ret[1].ctx # <<>>
    /\ ret[1].ctx[1].entries = <<>>

-----------------------------------------------------------------------------
(* Claims about the running server (Spec) *)

(* C1: a step in which the rebuild of the watcher callback ends with an     *)
(* error leaves the site behind the lock as it was, and the site changes    *)
(* only by the assignment of a successfully built Site; so every read       *)
(* observes the last successfully built snapshot.                           *)
C1_FailedRebuildKeepsSnapshot ==
    [][/\ (wpc = "scan" /\ wpc' = "idle") => (site' = site /\ gen'.site = gen.site)
       /\ site' # site => (wpc = "assign" /\ site' = built /\ werr = "")]_vars

(* C1 witness: after a rebuild failed on a malformed content file a reader  *)
(* has read the whole snapshot built at startup.                            *)
C1_Witness ==
    /\ wpc = "idle"
    /\ werr = "error extracting front matter"
    /\ \E n \in Range(Names) : tree[n] = DirMalformed
    /\ \E r \in Readers :
          /\ rpc[r] = "reading"
          /\ rreq[r].kind = "index"
          /\ robs[r].done
          /\ Len(robs[r].entries) = 2
          /\ robs[r].entries = site
          /\ rhist[r].gen = 1

(* C2: a read observes the entries of exactly one snapshot: while a handler *)
(* holds its guard the site is the one it found when it acquired the guard, *)
(* what it has read so far is a prefix of that snapshot, and that snapshot  *)
(* is the one installed by the last replace that had returned.              *)
C2_ReadObservesOneSnapshot ==
    \A r \in Readers :
        rpc[r] = "reading" =>
            /\ rhist[r].snapshot = site
            /\ rhist[r].gen = rhist[r].floor
            /\ rreq[r].kind = "index" =>
                  robs[r].entries = SubSeq(rhist[r].snapshot, 1, Len(robs[r].entries))

(* C2 witness: a read has observed the first entry of the old snapshot      *)
(* while the callback, holding a different new Site, waits for the write    *)
(* guard.                                                                   *)
C2_Witness ==
    /\ wpc = "locking"
    /\ built # site
    /\ \E r \in Readers :
          /\ rpc[r] = "reading"
          /\ rreq[r].kind = "index"
          /\ Len(robs[r].entries) = 1
          /\ Len(site) = 2

(* C3: the snapshot a reader finds when it acquires access is the one       *)
(* installed by the last replace that has returned, or a later one; the     *)
(* site never holds an earlier snapshot than one a replace has returned     *)
(* for or a reader has observed.                                            *)
C3_MonotonicVisibility ==
    /\ gen.site >= gen.returned
    /\ \A r \in Readers :
          rpc[r] = "reading" =>
              /\ rhist[r].gen >= rhist[r].floor
              /\ gen.site >= rhist[r].gen

(* C3 witness: a reader acquired access after the replace of the second     *)
(* build returned and observes that build's snapshot.                       *)
C3_Witness ==
    \E r \in Readers :
        /\ rpc[r] = "reading"
        /\ rhist[r].floor = 2
        /\ rhist[r].gen = 2
        /\ tree \notin InitialTrees
        /\ rhist[r].snapshot = site

SlugsDistinct(entries) ==
    \A i, j \in 1..Len(entries) : i # j => entries[i].slug # entries[j].slug

(* The slug parse_entry_dir gives the directory child name *)
SlugOfParsed(name, parsed) ==
    IF parsed.front_matter.slug # <<>> THEN parsed.front_matter.slug[1] ELSE file_stem(name)

(* The scan is at a directory child that parses and whose slug is already   *)
(* accumulated.                                                             *)
AtDuplicate ==
    /\ wpc = "scan"
    /\ idx \in 1..NumDirs
    /\ tree[Names[idx]].kind = "dir"
    /\ extract_front_matter_and_content(tree[Names[idx]].content).ok
    /\ \E i \in 1..Len(blog_entries) :
          blog_entries[i].slug =
              SlugOfParsed(Names[idx],
                           extract_front_matter_and_content(tree[Names[idx]].content))

(* C4: the site behind the lock, the entries accumulated by a running scan  *)
(* and a built Site always have pairwise distinct slugs; a scan step at a   *)
(* child whose slug is already accumulated ends the build with an error and *)
(* no Site, keeping the accumulated entries and the child apart.            *)
C4_SlugsDistinct ==
    /\ [](SlugsDistinct(site) /\ SlugsDistinct(blog_entries) /\ SlugsDistinct(built))
    /\ [][(AtDuplicate /\ (idx' # idx \/ wpc' # wpc))
             => (wpc' = "idle" /\ werr' # "" /\ site' = site /\ built' = built)]_vars

(* C4 witness: a rebuild was rejected for a duplicate slug and the site     *)
(* still holds the two entries built at startup.                            *)
C4_Witness ==
    /\ wpc = "idle"
    /\ werr = "non-unique slug"
    /\ Len(site) = 2
    /\ tree["a"] = DirUnclosed

(* C5: the HTML a handler reads through the html_content_file of an entry   *)
(* of the snapshot it holds is the rendering of the body parsed in the      *)
(* build that produced that snapshot.                                       *)
C5_HtmlMatchesSnapshot ==
    \A r \in Readers :
        (rpc[r] = "reading" /\ rreq[r].kind = "entry" /\ robs[r].done
            /\ robs[r].entries # <<>>)
        => robs[r].html = <<WrittenHtml(robs[r].entries[1].parsed_markdown)>>

(* C11: the write guard is held only for the swap. It is held exactly while *)
(* the callback is at the assignment or at the drop of the guard; while     *)
(* Site::from_dir runs no guard of the watcher exists and every idle        *)
(* handler can acquire read access; the guard is taken only after the scan  *)
(* has ended with a built Site, the one assignment of site is made under    *)
(* it, and the output directory is not written under it.                    *)
C11_LockHeldOnlyForSwap ==
    /\ [](/\ wlocked <=> wpc \in {"assign", "release"}
          /\ wpc = "scan" =>
                \A r \in Readers : rpc[r] = "idle" => ENABLED AcquireRead(r)
          /\ wpc = "release" => site = built)
    /\ [][/\ (~wlocked /\ wlocked') =>
                (wpc = "locking" /\ idx = 0 /\ blog_entries = <<>> /\ wpc' = "assign"
                    /\ built' = built /\ site' = site)
          /\ (wlocked /\ site' # site) =>
                (wpc = "assign" /\ wpc' = "release" /\ site' = built /\ wlocked')
          /\ (wlocked /\ ~wlocked') => (wpc = "release" /\ wpc' = "idle" /\ site' = site)
          /\ wlocked => out' = out]_vars

(* C11 witness: the scan of a rebuild is past its first child and has      *)
(* rewritten an HTML file, the write guard is not held, and a handler that  *)
(* has read access has read an entry of the site.                           *)
C11_Witness ==
    /\ wpc = "scan"
    /\ idx >= 2
    /\ ~wlocked
    /\ out["a"] # from_dir(InitialTree, EmptyOut, 0, "none").out["a"]
    /\ \E r \in Readers :
          /\ rpc[r] = "reading"
          /\ rhist[r].snapshot = site
          /\ robs[r].entries # <<>>

-----------------------------------------------------------------------------
(* Claims about the watcher (SpecWatch) *)

(* The event kinds that start a rebuild *)
Qualifying(event) == event \notin {"NoticeWrite", "NoticeRemove", "Error"}

(* The snapshot Site::from_dir builds from a content tree without an I/O    *)
(* failure.                                                                 *)
Valid(t) == from_dir(t, EmptyOut, 0, "none").ok
SnapshotOf(t) == from_dir(t, EmptyOut, 0, "none").blog_entries

(* C12: an event that arrives while a rebuild is in progress leaves that    *)
(* rebuild where it is and waits; a waiting qualifying event is taken only  *)
(* once the watcher is idle again and then starts another rebuild; and in   *)
(* the end every event has been taken, the watcher is idle, and the site    *)
(* holds and keeps the snapshot of the final content tree if that tree is   *)
(* valid and its last rebuild met no I/O failure.                           *)
C12_RebuildsConverge ==
    /\ [][/\ (wpc # "idle" /\ Len(queue') > Len(queue)) =>
                (/\ wpc' = wpc /\ idx' = idx /\ blog_entries' = blog_entries
                 /\ built' = built /\ gen' = gen /\ site' = site
                 /\ SubSeq(queue', 1, Len(queue)) = queue)
          /\ (queue # <<>> /\ queue' = Tail(queue)) =>
                (wpc = "idle" /\ (Qualifying(Head(queue)) =>
                                     (wpc' = "scan" /\ gen'.build = gen.build + 1)))
          /\ (Len(queue') < Len(queue)) => queue' = Tail(queue)]_vars
    /\ <>[](/\ queue = <<>>
            /\ wpc = "idle"
            /\ (Valid(tree) /\ werr = "") => site = SnapshotOf(tree))

(* C12 witness: the content changed while a rebuild was in progress; the   *)
(* rebuild went on to its end and waits for the write guard with the Site   *)
(* of the tree before the change, and the change's event waits in the       *)
(* queue.                                                                   *)
C12_Witness ==
    /\ wpc = "locking"
    /\ gen.build = 2
    /\ edits = 2
    /\ \E i \in 1..Len(queue) : Qualifying(queue[i])
    /\ Valid(tree)
    /\ built # SnapshotOf(tree)

(* C13: the callback entered with a NoticeWrite, NoticeRemove or Error      *)
(* event returns without a rebuild and leaves the site and the output       *)
(* directory alone; entered with any other event it starts one rebuild, and *)
(* rebuilds start in no other way.                                          *)
C13_EventFilter ==
    [][/\ (queue # <<>> /\ queue' = Tail(queue)) =>
             IF Qualifying(Head(queue))
             THEN /\ wpc = "idle" /\ wpc' = "scan" /\ idx' = 0 /\ blog_entries' = <<>>
                  /\ gen'.build = gen.build + 1
             ELSE /\ wpc' = wpc /\ gen' = gen /\ site' = site /\ out' = out
                  /\ built' = built /\ blog_entries' = blog_entries
       /\ gen'.build # gen.build =>
             (queue # <<>> /\ Qualifying(Head(queue)) /\ queue' = Tail(queue))
       /\ (wpc' = "scan" /\ wpc # "scan") => gen'.build = gen.build + 1]_vars

(* C13 witness: two qualifying events and two discarded ones were taken     *)
(* and the second rebuild since startup is running.                         *)
C13_Witness ==
    /\ edits = 2
    /\ queue = <<>>
    /\ gen.build = 3
    /\ wpc = "scan"
    /\ idx >= 1

-----------------------------------------------------------------------------
(* Claims about the pagers over all of usize (SpecUsize) *)

(* C14: a request for a page P of 1..UsizeMax with (P-1)*10 at or beyond    *)
(* the number of entries paged (for a tag: the entries carrying it, at      *)
(* least one) does not panic and gives a context without entries, with      *)
(* next_page none and previous_page P-1 (none for P = 1).                   *)
C14_BeyondEndIsEmpty ==
    ret # <<>> =>
        LET P == arg.page
            T == IF ret[1].route = "index" THEN Len(arg.blog_entries)
                 ELSE Cardinality(Tagged(arg.blog_entries, arg.tag))
        IN  ((P - 1) * 10 >= T /\ (ret[1].route = "tag" => T > 0)) =>
                /\ ret[1].kind # "panic"
                /\ ret[1].ctx # <<>>
                /\ ret[1].ctx[1].entries = <<>>
                /\ ret[1].ctx[1].next_page = <<>>
                /\ ret[1].ctx[1].previous_page = (IF P > 1 THEN <<P - 1>> ELSE <<>>)

=============================================================================
